---------------------------- MODULE Spec2Model ----------------------------
(***************************************************************************)
(* A model of the deposit exporter (src/script-demo.js) and of its second  *)
(* record extractor (src/return-detector.js).                              *)
(*                                                                         *)
(* Text is a sequence of atoms.  An atom is one character, or a run of     *)
(* characters none of which is a double quote, a comma or a line break     *)
(* (a field name, a number, a word).                                       *)
(***************************************************************************)
EXTENDS Integers, Sequences, FiniteSets, TLC

VARIABLES
    \* ---- the batch export (App.exportAllDepositData) and the detail-view
    \*      driver (ModalHandler) ----
    mode,           \* the entry point called: "batch" | "direct" | "idle"
    deposits,       \* the records findAllDeposits returned
    i,              \* the record being processed (1-based)
    pc,             \* where the run stands
    details,        \* what getDepositDetails resolved with, until it is used
    depositDetails, \* the batch loop's list of detail objects
    exportData,     \* formatForExport(depositDetails)
    downloads,      \* the files whose download was triggered, in order
    result,         \* what the entry point resolved with
    modal,          \* the record whose modal is on the page, 0 when none is
    pendingOpen,    \* the records whose click the page has yet to answer
    timers,         \* the pending setTimeout callbacks: [kind, rec, left]
    waitElapsed,    \* how long the current waitForElement has been pending
    cur,            \* what has happened to record i so far
    prev,           \* what happened to the record processed before it
    faultLog,       \* the steps that raised: <<record, step>>
    \* ---- export formatter (DataExport) ----
    expPc,          \* "input" | "formatted" | "serialized" | "read" | "idle"
    expDetails,     \* the detail objects handed to formatForExport
    expRows,        \* the rows handed to toCSV
    expCsv,         \* the text toCSV returned
    expRead,        \* the rows a reader of delimited text reads from expCsv
    \* ---- extractDepositInfo (both files) ----
    extPc,          \* "input" | "demo" | "both" | "idle"
    extContainer,   \* the container handed to extractDepositInfo
    extDemo,        \* what extractDepositInfo of script-demo.js returned
    extDetector,    \* what extractDepositInfo of return-detector.js returned
    \* ---- findAllDeposits (both files) ----
    findPc,         \* "input" | "demo" | "both" | "idle"
    findPage,       \* the page the script runs on
    findInvalid,    \* the selector of the fixed list the browser rejects, or 0
    findDemo,       \* what findAllDeposits of script-demo.js returned
    findDetector    \* what findAllDeposits of return-detector.js returned

expVars == <<expPc, expDetails, expRows, expCsv, expRead>>

pipeVars ==
    <<mode, deposits, i, pc, details, depositDetails, exportData, downloads,
      result, modal, pendingOpen, timers, waitElapsed, cur, prev, faultLog>>

extVars == <<extPc, extContainer, extDemo, extDetector>>

findVars == <<findPc, findPage, findInvalid, findDemo, findDetector>>

vars == <<pipeVars, expVars, extVars, findVars>>

-----------------------------------------------------------------------------
(* Bounds of the model *)

MaxStrLen == 2      \* longest free-text field value drawn, in atoms
MaxRows == 2        \* most rows handed to the formatter in one call
MaxRecords == 2     \* most records findAllDeposits returns
MaxFaults == 1      \* most steps of one run that raise
MaxElements == 2    \* most p and small elements in a container
MaxParagraphs == 4  \* most paragraphs in a container drawn for the amount

-----------------------------------------------------------------------------
(* JavaScript values: one record shape for every type, so that values of   *)
(* different types can be compared.                                        *)

JUndef == [t |-> "undefined", s |-> <<>>, b |-> FALSE, n |-> 0]
JNull == [t |-> "null", s |-> <<>>, b |-> FALSE, n |-> 0]
JStr(str) == [t |-> "string", s |-> str, b |-> FALSE, n |-> 0]
JBool(bool) == [t |-> "boolean", s |-> <<>>, b |-> bool, n |-> 0]
JNum(num) == [t |-> "number", s |-> <<>>, b |-> FALSE, n |-> num]
\* an object literal {k: str}; s holds the value of its one property
JObj(str) == [t |-> "object", s |-> str, b |-> FALSE, n |-> 0]

\* ToBoolean: what `v || d` and `v ? a : b` test
Truthy(v) ==
    CASE v.t = "string" -> v.s # <<>>
      [] v.t = "boolean" -> v.b
      [] v.t = "number" -> v.n # 0
      [] v.t = "object" -> TRUE
      [] OTHER -> FALSE

\* v || d
OrElse(v, d) == IF Truthy(v) THEN v ELSE d

RECURSIVE Concat(_)
Concat(seqs) ==
    IF seqs = <<>> THEN <<>> ELSE Head(seqs) \o Concat(Tail(seqs))

\* Array.prototype.join
RECURSIVE Join(_, _)
Join(seqs, sep) ==
    IF seqs = <<>> THEN <<>>
    ELSE IF Len(seqs) = 1 THEN seqs[1]
    ELSE seqs[1] \o <<sep>> \o Join(Tail(seqs), sep)

\* the mutant of ReplaceAll: the first occurrence alone is replaced
ReplaceFirst(str, c, by) ==
    LET at == {k \in 1..Len(str) : str[k] = c}
        first == CHOOSE k \in at : \A j \in at : k <= j
    IN  IF at = {} THEN str
        ELSE SubSeq(str, 1, first - 1) \o by \o SubSeq(str, first + 1, Len(str))

\* str.replace(/c/g, by)
RECURSIVE ReplaceAll(_, _, _)
ReplaceAll(str, c, by) ==
    IF str = <<>> THEN <<>>
    ELSE (IF Head(str) = c THEN by ELSE <<Head(str)>>)
             \o ReplaceAll(Tail(str), c, by)

\* JSON.stringify of a string: quoted, with " \ and line break escaped
JsonString(str) ==
    <<"\"">>
      \o ReplaceAll(ReplaceAll(ReplaceAll(str, "\\", <<"\\", "\\">>),
                               "\"", <<"\\", "\"">>),
                    "\n", <<"\\", "n">>)
      \o <<"\"">>

\* JSON.stringify of the object {k: str}
JsonStringify(v) == <<"{">> \o JsonString(<<"k">>) \o <<":">> \o JsonString(v.s) \o <<"}">>

-----------------------------------------------------------------------------
(* An object is the sequence of its <<key, value>> properties in insertion *)
(* order (the order Object.keys returns).                                  *)

ObjectKeys(obj) == [k \in 1..Len(obj) |-> obj[k][1]]

HasKey(obj, key) == \E k \in 1..Len(obj) : obj[k][1] = key

\* obj[key]: undefined when the object has no such property
GetProp(obj, key) ==
    IF HasKey(obj, key)
    THEN obj[CHOOSE k \in 1..Len(obj) : obj[k][1] = key][2]
    ELSE JUndef

-----------------------------------------------------------------------------
(* CONFIG *)

USER == <<"wolketich">>
TIMESTAMP_CURRENT == <<"2025-04-28 14:25:07">>

\* CONFIG.TIMEOUTS, in ms
MODAL_WAIT == 10000
FORM_EXTRACTION == 800
MODAL_CLOSE == 800

-----------------------------------------------------------------------------
(* DataExport.toCSV *)

\* the mutant of csvValue: quotes are not doubled
csvValueNoEscape(value) ==
    CASE value.t \in {"null", "undefined"} -> <<>>
      [] value.t = "boolean" -> IF value.b THEN <<"true">> ELSE <<"false">>
      [] value.t = "string" -> <<"\"">> \o value.s \o <<"\"">>
      [] value.t = "object" -> <<"\"">> \o JsonStringify(value) \o <<"\"">>
      [] OTHER -> <<"\"", ToString(value.n), "\"">>

\* the mutant of csvValue: booleans are rendered as 1 and 0
csvValueBoolDigit(value) ==
    CASE value.t \in {"null", "undefined"} -> <<>>
      [] value.t = "boolean" -> IF value.b THEN <<"1">> ELSE <<"0">>
      [] value.t = "string" ->
            <<"\"">> \o ReplaceAll(value.s, "\"", <<"\"", "\"">>) \o <<"\"">>
      [] value.t = "object" ->
            <<"\"">> \o ReplaceAll(JsonStringify(value), "\"", <<"\"", "\"">>)
                \o <<"\"">>
      [] OTHER -> <<"\"", ToString(value.n), "\"">>

\* the text of one value of a data row (the body of headers.map)
csvValue(value) ==
    CASE value.t \in {"null", "undefined"} -> <<>>
      [] value.t = "boolean" -> IF value.b THEN <<"true">> ELSE <<"false">>
      [] value.t = "string" ->
            <<"\"">> \o ReplaceAll(value.s, "\"", <<"\"", "\"">>) \o <<"\"">>
      [] value.t = "object" ->
            <<"\"">> \o ReplaceAll(JsonStringify(value), "\"", <<"\"", "\"">>)
                \o <<"\"">>
      [] OTHER -> <<"\"", ToString(value.n), "\"">>

toCSV(data) ==
    IF data = <<>> THEN <<>>
    ELSE LET headers == ObjectKeys(data[1])
             headerRow == Join([k \in 1..Len(headers) |-> <<headers[k]>>], ",")
                              \o <<"\n">>
             row(item) ==
                 Join([k \in 1..Len(headers) |->
                          csvValue(GetProp(item, headers[k]))], ",")
                     \o <<"\n">>
         IN  headerRow \o Concat([r \in 1..Len(data) |-> row(data[r])])

-----------------------------------------------------------------------------
(* DataExport.formatForExport *)

\* a detail object without modalInfo / listInfo: `deposit.modalInfo || {}`
NoModalInfo ==
    [present |-> FALSE, billPayer |-> JUndef, amount |-> JUndef,
     depositDate |-> JUndef, note |-> JUndef, alreadyPaid |-> JUndef]

NoListInfo ==
    [present |-> FALSE, amount |-> JUndef, currency |-> JUndef,
     depositStatus |-> JUndef, hasBeenReturned |-> JUndef,
     returnStatus |-> JUndef]

\* the mutant of formatRow: errorMessage is set only on a failed record
formatRowErrorOnlyOnFailure(deposit) ==
    LET modalInfo == IF deposit.modalInfo.present THEN deposit.modalInfo
                     ELSE NoModalInfo
        listInfo == IF deposit.listInfo.present THEN deposit.listInfo
                    ELSE NoListInfo
    IN  << <<"index", deposit.index>>,
           <<"amount", IF Truthy(listInfo.amount)
                       THEN JStr(ReplaceAll(listInfo.amount.s, ",", <<>>))
                       ELSE JStr(<<>>)>>,
           <<"currency", OrElse(listInfo.currency, JStr(<<>>))>>,
           <<"depositStatus", OrElse(listInfo.depositStatus, JStr(<<>>))>>,
           <<"hasBeenReturned", OrElse(listInfo.hasBeenReturned, JBool(FALSE))>>,
           <<"returnStatus", OrElse(listInfo.returnStatus, JStr(<<>>))>>,
           <<"billPayer", OrElse(modalInfo.billPayer, JStr(<<>>))>>,
           <<"formAmount", OrElse(modalInfo.amount, JStr(<<>>))>>,
           <<"depositDate", OrElse(modalInfo.depositDate, JStr(<<>>))>>,
           <<"note", OrElse(modalInfo.note, JStr(<<>>))>>,
           <<"alreadyPaid", OrElse(modalInfo.alreadyPaid, JBool(FALSE))>>,
           <<"extractedBy", OrElse(deposit.extractedBy, JStr(USER))>>,
           <<"extractedAt", OrElse(deposit.timestamp, JStr(TIMESTAMP_CURRENT))>> >>
        \o (IF Truthy(deposit.error)
            THEN << <<"errorMessage", deposit.error>> >> ELSE <<>>)

\* the row of one detail object (the body of deposits.map)
formatRow(deposit) ==
    LET modalInfo == IF deposit.modalInfo.present THEN deposit.modalInfo
                     ELSE NoModalInfo
        listInfo == IF deposit.listInfo.present THEN deposit.listInfo
                    ELSE NoListInfo
    IN  << <<"index", deposit.index>>,
           <<"amount", IF Truthy(listInfo.amount)
                       THEN JStr(ReplaceAll(listInfo.amount.s, ",", <<>>))
                       ELSE JStr(<<>>)>>,
           <<"currency", OrElse(listInfo.currency, JStr(<<>>))>>,
           <<"depositStatus", OrElse(listInfo.depositStatus, JStr(<<>>))>>,
           <<"hasBeenReturned", OrElse(listInfo.hasBeenReturned, JBool(FALSE))>>,
           <<"returnStatus", OrElse(listInfo.returnStatus, JStr(<<>>))>>,
           <<"billPayer", OrElse(modalInfo.billPayer, JStr(<<>>))>>,
           <<"formAmount", OrElse(modalInfo.amount, JStr(<<>>))>>,
           <<"depositDate", OrElse(modalInfo.depositDate, JStr(<<>>))>>,
           <<"note", OrElse(modalInfo.note, JStr(<<>>))>>,
           <<"alreadyPaid", OrElse(modalInfo.alreadyPaid, JBool(FALSE))>>,
           <<"extractedBy", OrElse(deposit.extractedBy, JStr(USER))>>,
           <<"extractedAt", OrElse(deposit.timestamp, JStr(TIMESTAMP_CURRENT))>>,
           <<"errorMessage", OrElse(deposit.error, JStr(<<>>))>> >>

formatForExport(list) ==
    IF list = <<>> THEN <<>> ELSE [k \in 1..Len(list) |-> formatRow(list[k])]

-----------------------------------------------------------------------------
(* The records and the page the batch export runs on *)

\* the record findAllDeposits returns for the k-th container
DepositOf(k) ==
    [index |-> JNum(k),
     amount |-> JStr(<<"1", ",", ToString(k), "50.00">>),
     currency |-> JStr(<<"$">>),
     depositStatus |-> JStr(<<"Paid">>),
     hasBeenReturned |-> JBool(k = 1),
     returnStatus |-> JStr(IF k = 1 THEN <<"Invoiced">> ELSE <<>>)]

\* the form controls of the modal of record m
FormOf(m) ==
    [present |-> TRUE,
     billPayer |-> JStr(<<"payer ", ToString(m)>>),
     amount |-> JStr(<<ToString(m), "50.00">>),
     depositDate |-> JStr(<<"01/02/2025">>),
     note |-> JStr(<<"note ", ToString(m)>>),
     alreadyPaid |-> JBool(TRUE)]

\* how long after a click the page may take to show the modal, in ms
AppearDelays == {100}

\* error.message of what a step raises
ClickMsg == <<"click is not a function">>
TimeoutMsg == <<"Timeout waiting for elements">>
ReadMsg == <<"cannot read the form">>
CloseMsg == <<"KeyboardEvent is not defined">>
DelayMsg == <<"setTimeout failed">>
DownloadMsg == <<"createObjectURL failed">>

NoRecord ==
    [click |-> "none", wait |-> "none", waitTook |-> 0, read |-> "none",
     settled |-> "none", close |-> "none", delay |-> "none"]

CanFault == Cardinality(faultLog) < MaxFaults

-----------------------------------------------------------------------------
(* ModalHandler.getDepositDetails *)

ListInfoOf(deposit) ==
    [present |-> TRUE, amount |-> deposit.amount, currency |-> deposit.currency,
     depositStatus |-> deposit.depositStatus,
     hasBeenReturned |-> deposit.hasBeenReturned,
     returnStatus |-> deposit.returnStatus]

\* fullDetails
FullDetails(deposit, modalInfo) ==
    [index |-> deposit.index, listInfo |-> ListInfoOf(deposit),
     modalInfo |-> modalInfo, error |-> JUndef,
     timestamp |-> JStr(TIMESTAMP_CURRENT), extractedBy |-> JStr(USER)]

\* the partial information built when a step raised
PartialDetails(deposit, message) ==
    [index |-> deposit.index, listInfo |-> ListInfoOf(deposit),
     modalInfo |-> NoModalInfo, error |-> JStr(message),
     timestamp |-> JStr(TIMESTAMP_CURRENT), extractedBy |-> JStr(USER)]

NoDetails ==
    [settled |-> "none",
     value |-> [index |-> JUndef, listInfo |-> NoListInfo,
                modalInfo |-> NoModalInfo, error |-> JUndef,
                timestamp |-> JUndef, extractedBy |-> JUndef]]

\* the mutant of getDepositDetailsCatch: the error is thrown on
getDepositDetailsRethrow(deposit, message) ==
    [settled |-> "rejected", value |-> PartialDetails(deposit, message)]

\* the catch of getDepositDetails: the call resolves with the partial
\* information
getDepositDetailsCatch(deposit, message) ==
    [settled |-> "resolved", value |-> PartialDetails(deposit, message)]

\* the mutant of waitCatchContinues: a rejected wait reaches the outer catch
waitCatchMissing == FALSE

\* the try around the wait for the modal: a rejected wait is logged and
\* the details are extracted anyway
waitCatchContinues == TRUE

\* ModalHandler.extractModalDetails, the read of the form controls: each
\* value is that of the first matching control of the document, '' or false
\* when there is none
ReadForm ==
    IF modal = 0
    THEN [present |-> TRUE, billPayer |-> JStr(<<>>), amount |-> JStr(<<>>),
          depositDate |-> JStr(<<>>), note |-> JStr(<<>>),
          alreadyPaid |-> JBool(FALSE)]
    ELSE FormOf(modal)

-----------------------------------------------------------------------------
(* Timers: time passes up to the earliest pending timer, which then fires *)

SettleTimer == [kind |-> "settle", rec |-> i, left |-> FORM_EXTRACTION]
WaitTimer == [kind |-> "wait", rec |-> i, left |-> MODAL_WAIT]
DelayTimer == [kind |-> "delay", rec |-> i, left |-> MODAL_CLOSE]

\* the mutant of waitForElementTimers: no deadline is set up
waitForElementNoDeadline == {}

\* the timers waitForElement sets up when its first check finds nothing
waitForElementTimers == {WaitTimer}

CanAdvance(d) == \A t \in timers : d <= t.left

Advance(ts, d) == {[t EXCEPT !.left = t.left - d] : t \in ts}

IsDue(t) == t \in timers /\ \A u \in timers : t.left <= u.left

\* the script runs to its next await before the page or a timer gets a turn
Awaiting == pc \in {"wait", "settle", "delay", "done"}

-----------------------------------------------------------------------------
(* The run *)

InitPipeline ==
    /\ \E n \in 0..MaxRecords :
          deposits = IF n = 0 THEN <<>> ELSE [k \in 1..n |-> DepositOf(k)]
    /\ \/ /\ mode = "batch"
          /\ i = 0
          /\ pc = "start"
       \/ /\ mode = "direct"
          /\ i \in 1..Len(deposits)
          /\ pc = "click"
    /\ details = NoDetails
    /\ depositDetails = <<>>
    /\ exportData = <<>>
    /\ downloads = <<>>
    /\ result = [kind |-> "none", count |-> 0, data |-> <<>>, error |-> <<>>]
    /\ modal = 0
    /\ pendingOpen = {}
    /\ timers = {}
    /\ waitElapsed = 0
    /\ cur = NoRecord
    /\ prev = NoRecord
    /\ faultLog = {}

\* exportAllDepositData up to the loop
Start ==
    /\ pc = "start"
    /\ IF deposits = <<>>
       THEN /\ result' = [kind |-> "nodeposits", count |-> 0, data |-> <<>>,
                          error |-> <<"No deposits found">>]
            /\ pc' = "done"
            /\ i' = i
       ELSE /\ i' = 1
            /\ pc' = "click"
            /\ result' = result
    /\ UNCHANGED <<mode, deposits, details, depositDetails, exportData,
                   downloads, modal, pendingOpen, timers, waitElapsed, cur,
                   prev, faultLog>>
    /\ UNCHANGED <<expVars, extVars, findVars>>

\* the loop goes to the next record, or leaves
NextRecord(done) ==
    /\ prev' = done
    /\ cur' = NoRecord
    /\ i' = i + 1
    /\ pc' = IF i < Len(deposits) THEN "click" ELSE "export"

\* the catch of the batch loop: a row with the error, then the next record
LoopCatch(list, message, done) ==
    /\ depositDetails' = Append(list, PartialDetails(deposits[i], message))
    /\ NextRecord(done)

\* getDepositDetails goes on to extractModalDetails, which sets its timer
StartExtract(ts, done) ==
    /\ timers' = ts \cup {SettleTimer}
    /\ cur' = [done EXCEPT !.read = "pending"]
    /\ pc' = "settle"
    /\ details' = details

\* getDepositDetails: the click, and waitForElement up to its first check
Click ==
    /\ pc = "click"
    /\ \/ \* the click raises
          /\ CanFault
          /\ faultLog' = faultLog \cup {<<i, "click">>}
          /\ details' = getDepositDetailsCatch(deposits[i], ClickMsg)
          /\ cur' = [cur EXCEPT !.click = "raised",
                                !.settled = getDepositDetailsCatch(deposits[i], ClickMsg).settled]
          /\ pc' = "returned"
          /\ UNCHANGED <<modal, pendingOpen, timers, waitElapsed>>
       \/ \* the page shows the modal at once, later, or never
          \E opens \in {"now", "later", "never"}, first \in BOOLEAN :
             LET shown == IF opens # "now" THEN modal
                          ELSE IF modal = 0 \/ first THEN i ELSE modal
                 clicked == [cur EXCEPT !.click = "ok"]
             IN  /\ first => (opens = "now" /\ modal # 0)
                 /\ modal' = shown
                 /\ pendingOpen' = IF opens = "later" THEN pendingOpen \cup {i}
                                   ELSE pendingOpen
                 /\ IF shown # 0
                    THEN \* a modal-like element is there already
                         /\ StartExtract(timers, [clicked EXCEPT !.wait = "immediate"])
                         /\ waitElapsed' = waitElapsed
                    ELSE \* the observer and the deadline are set up
                         /\ timers' = timers \cup waitForElementTimers
                         /\ cur' = [clicked EXCEPT !.wait = "pending"]
                         /\ waitElapsed' = 0
                         /\ pc' = "wait"
                         /\ details' = details
                 /\ faultLog' = faultLog
    /\ UNCHANGED <<mode, deposits, i, depositDetails, exportData, downloads,
                   result, prev>>
    /\ UNCHANGED <<expVars, extVars, findVars>>

\* the page answers an earlier click: the modal of record r appears, after
\* d ms, in the observed part of the document or outside it; a pending
\* waitForElement that observes it resolves
ModalAppears ==
    \E r \in pendingOpen, d \in AppearDelays, observed \in BOOLEAN,
       first \in BOOLEAN :
        /\ Awaiting
        /\ CanAdvance(d)
        /\ first => modal # 0
        /\ pendingOpen' = pendingOpen \ {r}
        /\ modal' = IF modal = 0 \/ first THEN r ELSE modal
        /\ IF pc = "wait" /\ observed
           THEN /\ StartExtract(Advance(timers, d),
                                [cur EXCEPT !.wait = "observed",
                                            !.waitTook = waitElapsed + d])
                /\ waitElapsed' = 0
           ELSE /\ timers' = Advance(timers, d)
                /\ waitElapsed' = IF pc = "wait" THEN waitElapsed + d
                                  ELSE waitElapsed
                /\ UNCHANGED <<cur, pc, details>>
        /\ UNCHANGED <<mode, deposits, i, depositDetails, exportData,
                       downloads, result, prev, faultLog>>
        /\ UNCHANGED <<expVars, extVars, findVars>>

\* another mutation of the document while waitForElement is pending: the
\* observer's callback finds the modal that is there
Mutation ==
    /\ pc = "wait"
    /\ modal # 0
    /\ StartExtract(timers, [cur EXCEPT !.wait = "observed",
                                        !.waitTook = waitElapsed])
    /\ waitElapsed' = 0
    /\ UNCHANGED <<mode, deposits, i, depositDetails, exportData, downloads,
                   result, modal, pendingOpen, prev, faultLog>>
    /\ UNCHANGED <<expVars, extVars, findVars>>

\* the deadline of waitForElement: the observer is disconnected and the
\* document scanned once more; the promise resolves with what the scan
\* finds or rejects.  The deadline of a wait that has settled changes
\* nothing.
WaitDeadline ==
    \E t \in timers :
        /\ Awaiting
        /\ IsDue(t)
        /\ t.kind = "wait"
        /\ LET rest == Advance(timers \ {t}, t.left)
               took == waitElapsed + t.left
           IN  IF pc = "wait" /\ t.rec = i
               THEN /\ waitElapsed' = 0
                    /\ IF modal # 0
                       THEN /\ StartExtract(rest, [cur EXCEPT !.wait = "fallback",
                                                              !.waitTook = took])
                       ELSE IF waitCatchContinues
                       THEN /\ StartExtract(rest, [cur EXCEPT !.wait = "timeout",
                                                              !.waitTook = took])
                       ELSE /\ timers' = rest
                            /\ details' = getDepositDetailsCatch(deposits[i], TimeoutMsg)
                            /\ cur' = [cur EXCEPT
                                         !.wait = "timeout", !.waitTook = took,
                                         !.settled = getDepositDetailsCatch(
                                                        deposits[i], TimeoutMsg).settled]
                            /\ pc' = "returned"
               ELSE /\ timers' = rest
                    /\ waitElapsed' = IF pc = "wait" THEN took ELSE waitElapsed
                    /\ UNCHANGED <<cur, pc, details>>
        /\ UNCHANGED <<mode, deposits, i, depositDetails, exportData,
                       downloads, result, modal, pendingOpen, prev, faultLog>>
        /\ UNCHANGED <<expVars, extVars, findVars>>

\* the timer of extractModalDetails: the form controls are read, and
\* getDepositDetails settles
ReadDetails ==
    \E t \in timers :
        /\ IsDue(t)
        /\ t.kind = "settle"
        /\ timers' = Advance(timers \ {t}, t.left)
        /\ \/ /\ details' = [settled |-> "resolved",
                             value |-> FullDetails(deposits[i], ReadForm)]
              /\ cur' = [cur EXCEPT !.read = "ok", !.settled = "resolved"]
              /\ faultLog' = faultLog
           \/ \* the read raises: extractModalDetails rejects
              /\ CanFault
              /\ faultLog' = faultLog \cup {<<i, "read">>}
              /\ details' = getDepositDetailsCatch(deposits[i], ReadMsg)
              /\ cur' = [cur EXCEPT !.read = "raised",
                                    !.settled = getDepositDetailsCatch(
                                                   deposits[i], ReadMsg).settled]
        /\ pc' = "returned"
        /\ UNCHANGED <<mode, deposits, i, depositDetails, exportData,
                       downloads, result, modal, pendingOpen, waitElapsed, prev>>
        /\ UNCHANGED <<expVars, extVars, findVars>>

\* the batch loop receives what getDepositDetails settled with
Push ==
    /\ pc = "returned"
    /\ mode = "batch"
    /\ IF details.settled = "resolved"
       THEN /\ depositDetails' = Append(depositDetails, details.value)
            /\ pc' = "close"
            /\ UNCHANGED <<i, cur, prev>>
       ELSE LoopCatch(depositDetails, details.value.error.s, cur)
    /\ details' = NoDetails
    /\ UNCHANGED <<mode, deposits, exportData, downloads, result, modal,
                   pendingOpen, timers, waitElapsed, faultLog>>
    /\ UNCHANGED <<expVars, extVars, findVars>>

\* the caller of the exposed getDepositDetails receives what it settled with
ReturnToCaller ==
    /\ pc = "returned"
    /\ mode = "direct"
    /\ result' = [kind |-> IF details.settled = "resolved" THEN "details"
                           ELSE "rejected",
                  count |-> 0, data |-> <<>>, error |-> <<>>]
    /\ pc' = "done"
    /\ UNCHANGED <<mode, deposits, i, details, depositDetails, exportData,
                   downloads, modal, pendingOpen, timers, waitElapsed, cur,
                   prev, faultLog>>
    /\ UNCHANGED <<expVars, extVars, findVars>>

\* ModalHandler.closeModal, and the delay the loop then sets up
CloseModal ==
    /\ pc = "close"
    /\ \/ \* a close-button selector matches and the button is clicked, or
          \* none does and Escape is dispatched; the modal goes or stays
          \E button \in BOOLEAN, closes \in BOOLEAN :
             LET closed == [cur EXCEPT !.close = IF button THEN "clicked"
                                                 ELSE "escape"]
             IN  /\ closes => modal # 0
                 /\ modal' = IF closes THEN 0 ELSE modal
                 /\ \/ /\ timers' = timers \cup {DelayTimer}
                       /\ cur' = [closed EXCEPT !.delay = "pending"]
                       /\ pc' = "delay"
                       /\ UNCHANGED <<i, prev, depositDetails, faultLog>>
                    \/ \* setting up the delay raises
                       /\ CanFault
                       /\ faultLog' = faultLog \cup {<<i, "delay">>}
                       /\ LoopCatch(depositDetails, DelayMsg,
                                    [closed EXCEPT !.delay = "raised"])
                       /\ timers' = timers
       \/ \* no selector matches and dispatching Escape raises
          /\ CanFault
          /\ faultLog' = faultLog \cup {<<i, "close">>}
          /\ LoopCatch(depositDetails, CloseMsg, [cur EXCEPT !.close = "raised"])
          /\ UNCHANGED <<modal, timers>>
    /\ UNCHANGED <<mode, deposits, details, exportData, downloads, result,
                   pendingOpen, waitElapsed>>
    /\ UNCHANGED <<expVars, extVars, findVars>>

\* the delay after the dismissal has elapsed
DelayElapsed ==
    \E t \in timers :
        /\ IsDue(t)
        /\ t.kind = "delay"
        /\ timers' = Advance(timers \ {t}, t.left)
        /\ NextRecord([cur EXCEPT !.delay = "elapsed"])
        /\ UNCHANGED <<mode, deposits, details, depositDetails, exportData,
                       downloads, result, modal, pendingOpen, waitElapsed,
                       faultLog>>
        /\ UNCHANGED <<expVars, extVars, findVars>>

\* after the loop: the rows are formatted and serialized
Export ==
    /\ pc = "export"
    /\ exportData' = formatForExport(depositDetails)
    /\ pc' = "csv"
    /\ UNCHANGED <<mode, deposits, i, details, depositDetails, downloads,
                   result, modal, pendingOpen, timers, waitElapsed, cur, prev,
                   faultLog>>
    /\ UNCHANGED <<expVars, extVars, findVars>>

\* the top-level catch of exportAllDepositData
TopCatch(message) ==
    /\ result' = [kind |-> "failure", count |-> 0, data |-> <<>>,
                  error |-> message]
    /\ pc' = "done"

\* DataExport.downloadFile of the file of that kind; it may raise before
\* the download is triggered
Download(kind, next) ==
    /\ pc = kind
    /\ \/ /\ downloads' = Append(downloads, kind)
          /\ pc' = next
          /\ UNCHANGED <<result, faultLog>>
       \/ /\ CanFault
          /\ faultLog' = faultLog \cup {<<0, kind>>}
          /\ TopCatch(DownloadMsg)
          /\ downloads' = downloads
    /\ UNCHANGED <<mode, deposits, i, details, depositDetails, exportData,
                   modal, pendingOpen, timers, waitElapsed, cur, prev>>
    /\ UNCHANGED <<expVars, extVars, findVars>>

DownloadCsv == Download("csv", "json")

DownloadJson == Download("json", "finish")

\* the success result of exportAllDepositData
Finish ==
    /\ pc = "finish"
    /\ result' = [kind |-> "success", count |-> Len(deposits),
                  data |-> exportData, error |-> <<>>]
    /\ pc' = "done"
    /\ UNCHANGED <<mode, deposits, i, details, depositDetails, exportData,
                   downloads, modal, pendingOpen, timers, waitElapsed, cur,
                   prev, faultLog>>
    /\ UNCHANGED <<expVars, extVars, findVars>>

-----------------------------------------------------------------------------
(* The inputs of the export formatter *)

Quote == "\""

StrAlphabet == {"hi", Quote, ",", "\n"}

\* the free-text values drawn: every text of at most MaxStrLen atoms, and
\* the text  He said "hi"
HeSaidHi == <<"He said ", Quote, "hi", Quote>>

Strings == UNION {[1..k -> StrAlphabet] : k \in 0..MaxStrLen} \cup {HeSaidHi}

Shapes == {"modal", "error", "neither"}

\* the detail object of record idx as getDepositDetails or the batch loop
\* builds it: with modalInfo, with only an error, or with neither; the text
\* str is placed in the field named by field
DetailObject(idx, shape, field, str) ==
    [index |-> JNum(idx),
     listInfo |->
        [present |-> TRUE,
         amount |-> JStr(IF field = "amount" THEN str ELSE <<"1", ",", "250.00">>),
         currency |-> JStr(<<"$">>),
         depositStatus |-> JStr(<<"Paid">>),
         hasBeenReturned |-> JBool(idx = 1),
         returnStatus |-> JStr(IF idx = 1 THEN <<"Invoiced">> ELSE <<>>)],
     modalInfo |->
        IF shape = "modal"
        THEN [present |-> TRUE,
              billPayer |-> JStr(<<"Ann">>),
              amount |-> JStr(<<"300">>),
              depositDate |-> JStr(<<"01/02/2025">>),
              note |-> JStr(IF field = "note" THEN str ELSE <<"a", ",", Quote>>),
              alreadyPaid |-> JBool(TRUE)]
        ELSE NoModalInfo,
     error |-> IF shape = "error"
               THEN JStr(IF field = "error" THEN str ELSE <<"boom">>)
               ELSE JUndef,
     timestamp |-> JStr(TIMESTAMP_CURRENT),
     extractedBy |-> JStr(USER)]

DetailInputs ==
    {[k \in 1..len |->
         DetailObject(k, shapes[k], IF k = pos THEN field ELSE "none", str)] :
       len \in 1..MaxRows, pos \in 1..MaxRows, shapes \in [1..MaxRows -> Shapes],
       field \in {"amount", "note", "error"}, str \in Strings}

\* rows that formatForExport does not produce: every type of value, a later
\* row that lacks a field, has one more, or has its fields in another order
GenericValues ==
    {JUndef, JNull, JBool(TRUE), JBool(FALSE), JNum(7)}
        \cup {JStr(str) : str \in Strings} \cup {JObj(str) : str \in Strings}

GenericInputs ==
    {<< << <<"a", v1>>, <<"b", v2>> >> >> \o rest :
       v1 \in GenericValues,
       v2 \in {JBool(TRUE), JNull, JNum(5)},
       rest \in {<<>>,
                 << << <<"a", JBool(FALSE)>> >> >>,
                 << << <<"b", JStr(<<Quote>>)>>, <<"a", JNum(0)>> >> >>,
                 << << <<"a", JObj(<<"hi">>)>>, <<"b", JNull>>,
                       <<"c", JStr(<<"x">>)>> >> >>}}

-----------------------------------------------------------------------------
(* The export formatter applied to its inputs *)

InitExport ==
    /\ \/ /\ expDetails \in DetailInputs
          /\ expPc = "input"
          /\ expRows = <<>>
       \/ /\ expDetails = <<>>
          /\ expPc = "formatted"
          /\ expRows \in GenericInputs
    /\ expCsv = <<>>
    /\ expRead = <<>>

ExpFormat ==
    /\ expPc = "input"
    /\ expRows' = formatForExport(expDetails)
    /\ expPc' = "formatted"
    /\ UNCHANGED <<expDetails, expCsv, expRead>>
    /\ UNCHANGED <<pipeVars, extVars, findVars>>

ExpSerialize ==
    /\ expPc = "formatted"
    /\ expCsv' = toCSV(expRows)
    /\ expPc' = "serialized"
    /\ UNCHANGED <<expDetails, expRows, expRead>>
    /\ UNCHANGED <<pipeVars, extVars, findVars>>

-----------------------------------------------------------------------------
(* A standard reader of quoted delimited text (RFC 4180): a field that     *)
(* starts with a double quote runs to the next lone double quote, two      *)
(* double quotes inside it read as one; a comma ends a field, a line break *)
(* outside quotes ends a row.  A field is [text, quoted].                  *)

\* the reader's state after one more atom c
ReadStep(st, c) ==
    LET field == [text |-> st.cur, quoted |-> st.quoted]
        endField == [st EXCEPT !.mode = "start", !.cur = <<>>, !.quoted = FALSE,
                               !.row = Append(st.row, field)]
        endRow == [st EXCEPT !.mode = "start", !.cur = <<>>, !.quoted = FALSE,
                             !.row = <<>>,
                             !.rows = Append(st.rows, Append(st.row, field))]
        more == [st EXCEPT !.mode = "plain", !.cur = Append(st.cur, c)]
    IN  CASE st.mode = "start" /\ c = Quote ->
                [st EXCEPT !.mode = "quoted", !.quoted = TRUE]
          [] st.mode = "quoted" /\ c = Quote -> [st EXCEPT !.mode = "closing"]
          [] st.mode = "quoted" /\ c # Quote ->
                [st EXCEPT !.cur = Append(st.cur, c)]
          [] st.mode = "closing" /\ c = Quote ->
                [st EXCEPT !.mode = "quoted", !.cur = Append(st.cur, Quote)]
          [] st.mode # "quoted" /\ c = "," -> endField
          [] st.mode # "quoted" /\ c = "\n" -> endRow
          [] OTHER -> more

\* the reader's state after the atoms lo..hi of txt
RECURSIVE ReadRange(_, _, _, _)
ReadRange(st, txt, lo, hi) ==
    IF lo > hi THEN st
    ELSE IF lo = hi THEN ReadStep(st, txt[lo])
    ELSE LET mid == (lo + hi) \div 2
             left == ReadRange(st, txt, lo, mid)
         IN  \* the test evaluates left before the right half is read
             IF left.mode = "" THEN left ELSE ReadRange(left, txt, mid + 1, hi)

ParseCSV(txt) ==
    LET st == ReadRange([mode |-> "start", cur |-> <<>>, quoted |-> FALSE,
                         row |-> <<>>, rows |-> <<>>], txt, 1, Len(txt))
    IN  IF st.mode = "start" /\ st.row = <<>> THEN st.rows
        ELSE Append(st.rows, Append(st.row, [text |-> st.cur, quoted |-> st.quoted]))

\* the text toCSV returned is read back
ExpReadBack ==
    /\ expPc = "serialized"
    /\ expRead' = ParseCSV(expCsv)
    /\ expPc' = "read"
    /\ UNCHANGED <<expDetails, expRows, expCsv>>
    /\ UNCHANGED <<pipeVars, extVars, findVars>>

Parsed == expRead

\* the text has a header row and one row per data row, each with one field
\* per header
WellShaped ==
    /\ Len(Parsed) = Len(expRows) + 1
    /\ \A r \in 1..Len(Parsed) : Len(Parsed[r]) = Len(ObjectKeys(expRows[1]))

\* the field read back for column c of data row r, and the value written
CellRead(r, c) == Parsed[r + 1][c]
CellValue(r, c) == GetProp(expRows[r], ObjectKeys(expRows[1])[c])

Cells == {<<r, c>> : r \in 1..Len(expRows), c \in 1..Len(ObjectKeys(expRows[1]))}

-----------------------------------------------------------------------------
\* C8: every string value of a row is read back exactly from the text toCSV
\* returns by a standard reader of quoted delimited text, whatever double
\* quotes, commas and line breaks it holds.
C8_RoundTrip ==
    expPc = "read" =>
        /\ WellShaped
        /\ \A rc \in Cells :
              CellValue(rc[1], rc[2]).t = "string" =>
                  CellRead(rc[1], rc[2]).text = CellValue(rc[1], rc[2]).s

\* a row holding  He said "hi"  has been written
C8_Witness ==
    /\ expPc = "read"
    /\ \E rc \in Cells : CellValue(rc[1], rc[2]) = JStr(HeSaidHi)
    /\ \E rc \in Cells : CellRead(rc[1], rc[2]).text = HeSaidHi

Schema ==
    <<"index", "amount", "currency", "depositStatus", "hasBeenReturned",
      "returnStatus", "billPayer", "formAmount", "depositDate", "note",
      "alreadyPaid", "extractedBy", "extractedAt", "errorMessage">>

\* C10: every row formatForExport produces has the fields of the schema, in
\* its order, whether the record carries modalInfo, only an error or
\* neither; and every row of the text written from such rows has as many
\* fields as the header.
C10_FixedSchema ==
    expDetails # <<>> =>
        /\ expPc \in {"formatted", "serialized", "read"} =>
              /\ Len(expRows) = Len(expDetails)
              /\ \A r \in 1..Len(expRows) : ObjectKeys(expRows[r]) = Schema
        /\ expPc = "read" =>
              /\ Len(Parsed) = Len(expRows) + 1
              /\ \A r \in 1..Len(Parsed) : Len(Parsed[r]) = Len(Parsed[1])
              /\ Len(Parsed[1]) = Len(Schema)

\* a record with modalInfo and a record with only an error have been
\* formatted and written
C10_Witness ==
    /\ expPc = "read"
    /\ \E r \in 1..Len(expDetails) : expDetails[r].modalInfo.present
    /\ \E r \in 1..Len(expDetails) :
          ~expDetails[r].modalInfo.present /\ Truthy(expDetails[r].error)

-----------------------------------------------------------------------------
(* extractDepositInfo, in both files.  Here text is a sequence of          *)
(* characters.  A container is the sequence of its p and small elements in *)
(* document order; an element with wrap = TRUE opens a new wrapper div,    *)
(* the elements after it lie in that div until the next one opens, and the *)
(* elements before the first wrapper are children of the container.        *)

CURRENCY_SYMBOLS == <<"€", "$", "£">>

Digits == {"0", "1", "2", "3", "4", "5", "6", "7", "8", "9"}
AmountChars == Digits \cup {",", "."}
Whitespace == {" ", "\t", "\n"}

TextDeposit == <<"D", "e", "p", "o", "s", "i", "t">>
TextReturn == <<"R", "e", "t", "u", "r", "n">>
TextInvoiced == <<"I", "n", "v", "o", "i", "c", "e", "d">>
TextPendingInvoice ==
    <<"P", "e", "n", "d", "i", "n", "g", " ", "i", "n", "v", "o", "i", "c", "e">>

Least(S) == CHOOSE x \in S : \A y \in S : x <= y

RECURSIVE TrimStart(_)
TrimStart(text) ==
    IF text # <<>> /\ Head(text) \in Whitespace THEN TrimStart(Tail(text))
    ELSE text

RECURSIVE TrimEnd(_)
TrimEnd(text) ==
    IF text # <<>> /\ text[Len(text)] \in Whitespace
    THEN TrimEnd(SubSeq(text, 1, Len(text) - 1))
    ELSE text

\* String.prototype.trim
Trim(text) == TrimEnd(TrimStart(text))

\* String.prototype.includes
Includes(text, part) ==
    \E k \in 0..(Len(text) - Len(part)) : SubSeq(text, k + 1, k + Len(part)) = part

\* /[\d,.]+/.test(text): the pattern is not anchored
HasAmountChar(text) == \E k \in 1..Len(text) : text[k] \in AmountChars

\* the mutant of CombinedMatch: the symbol is not split off the amount
CombinedMatchNoSplit(text) ==
    LET symbol == IF text # <<>> /\ \E s \in 1..Len(CURRENCY_SYMBOLS) :
                                       Head(text) = CURRENCY_SYMBOLS[s]
                  THEN <<Head(text)>> ELSE <<>>
        rest == TrimStart(SubSeq(text, Len(symbol) + 1, Len(text)))
    IN  [matches |-> rest # <<>> /\ \A k \in 1..Len(rest) : rest[k] \in AmountChars,
         symbol |-> <<>>,
         digits |-> text]

\* text.match(/^([€$£]?)\s*([\d,.]+)$/)
CombinedMatch(text) ==
    LET symbol == IF text # <<>> /\ \E s \in 1..Len(CURRENCY_SYMBOLS) :
                                       Head(text) = CURRENCY_SYMBOLS[s]
                  THEN <<Head(text)>> ELSE <<>>
        rest == TrimStart(SubSeq(text, Len(symbol) + 1, Len(text)))
    IN  [matches |-> rest # <<>> /\ \A k \in 1..Len(rest) : rest[k] \in AmountChars,
         symbol |-> symbol,
         digits |-> rest]

\* element.textContent.trim() of the k-th element
TextOf(container, k) == Trim(container[k].text)

\* container.textContent
TextContent(container) ==
    Concat([k \in 1..Len(container) |-> container[k].text])

\* DOMUtils.elementContainsText(container, text)
elementContainsText(container, text) == Includes(Trim(TextContent(container)), text)

\* DOMUtils.querySelectorAll('p', container): the positions of the
\* paragraphs, in document order
Paragraphs(container) ==
    SelectSeq([k \in 1..Len(container) |-> k], LAMBDA k : container[k].tag = "p")

\* element.parentElement: 0 is the container, w the w-th wrapper
ParentOf(container, k) == Cardinality({j \in 1..k : container[j].wrap})

\* DOMUtils.querySelector('small', parent): the first small element among
\* the descendants of the parent, 0 when there is none
FirstSmallIn(container, parent) ==
    LET smalls == {k \in 1..Len(container) :
                     /\ container[k].tag = "small"
                     /\ parent = 0 \/ ParentOf(container, k) = parent}
    IN  IF smalls = {} THEN 0 ELSE Least(smalls)

\* paragraphs.find(p => p.textContent.trim() === text): its place in the
\* list of paragraphs, 0 when there is none
FindParagraph(container, text) ==
    LET ps == Paragraphs(container)
        found == {n \in 1..Len(ps) : TextOf(container, ps[n]) = text}
    IN  IF found = {} THEN 0 ELSE Least(found)

\* the text of the first small element in the parent of the first paragraph
\* with that text, '' when there is no such paragraph or no such element
StatusBeside(container, text) ==
    LET ps == Paragraphs(container)
        n == FindParagraph(container, text)
        small == FirstSmallIn(container, ParentOf(container, ps[n]))
    IN  IF n = 0 THEN <<>>
        ELSE IF small = 0 THEN <<>>
        ELSE TextOf(container, small)

\* the loop over the standalone currency symbols, from the s-th symbol on
RECURSIVE SymbolLoop(_, _, _)
SymbolLoop(container, s, currency) ==
    IF s > Len(CURRENCY_SYMBOLS) THEN [currency |-> currency, amount |-> <<>>]
    ELSE LET ps == Paragraphs(container)
             n == FindParagraph(container, <<CURRENCY_SYMBOLS[s]>>)
         IN  IF n = 0 THEN SymbolLoop(container, s + 1, currency)
             ELSE IF n < Len(ps) /\ HasAmountChar(TextOf(container, ps[n + 1]))
             THEN [currency |-> <<CURRENCY_SYMBOLS[s]>>,
                   amount |-> TextOf(container, ps[n + 1])]
             ELSE SymbolLoop(container, s + 1, <<CURRENCY_SYMBOLS[s]>>)

\* the mutant of AmountOf: the combined format is tried first
AmountOfCombinedFirst(container) ==
    LET ps == Paragraphs(container)
        alone == SymbolLoop(container, 1, <<>>)
        combined == {n \in 1..Len(ps) :
                       CombinedMatch(TextOf(container, ps[n])).matches}
    IN  IF combined = {} THEN alone
        ELSE LET match == CombinedMatch(TextOf(container, ps[Least(combined)]))
             IN  [currency |-> match.symbol, amount |-> match.digits]

\* currency and amount: the standalone symbol, then the combined format
AmountOf(container) ==
    LET ps == Paragraphs(container)
        alone == SymbolLoop(container, 1, <<>>)
        combined == {n \in 1..Len(ps) :
                       CombinedMatch(TextOf(container, ps[n])).matches}
    IN  IF alone.amount # <<>> THEN alone
        ELSE IF combined = {} THEN alone
        ELSE LET match == CombinedMatch(TextOf(container, ps[Least(combined)]))
             IN  [currency |-> match.symbol, amount |-> match.digits]

\* extractDepositInfo of src/script-demo.js (the element field is left out)
extractDepositInfo(container, index) ==
    LET hasBeenReturned ==
            \/ FindParagraph(container, TextReturn) # 0
            \/ elementContainsText(container, TextReturn)
    IN  [index |-> index,
         type |-> TextDeposit,
         amount |-> AmountOf(container).amount,
         currency |-> AmountOf(container).currency,
         depositStatus |-> StatusBeside(container, TextDeposit),
         hasBeenReturned |-> hasBeenReturned,
         returnStatus |-> IF hasBeenReturned
                          THEN StatusBeside(container, TextReturn) ELSE <<>>]

\* the mutant of extractDepositInfoDetector: the status is kept only beside
\* a return that counts
extractDepositInfoDetectorGated(container, index) ==
    LET returnStatus == StatusBeside(container, TextReturn)
    IN  [index |-> index,
         type |-> TextDeposit,
         amount |-> AmountOf(container).amount,
         currency |-> AmountOf(container).currency,
         depositStatus |-> StatusBeside(container, TextDeposit),
         hasBeenReturned |-> returnStatus = TextInvoiced,
         returnStatus |-> IF returnStatus = TextInvoiced THEN returnStatus ELSE <<>>]

\* extractDepositInfo of src/return-detector.js (the xpath and outerHTML
\* fields are left out)
extractDepositInfoDetector(container, index) ==
    LET returnStatus == StatusBeside(container, TextReturn)
    IN  [index |-> index,
         type |-> TextDeposit,
         amount |-> AmountOf(container).amount,
         currency |-> AmountOf(container).currency,
         depositStatus |-> StatusBeside(container, TextDeposit),
         hasBeenReturned |-> returnStatus = TextInvoiced,
         returnStatus |-> returnStatus]

\* the elements a container is made of
Texts ==
    {TextDeposit, TextReturn, <<" ">> \o TextInvoiced, TextPendingInvoice,
     <<"$", "3", "0", "0">>}

Elements == [tag : {"p", "small"}, text : Texts, wrap : BOOLEAN]

El(tag, text, wrap) == [tag |-> tag, text |-> text, wrap |-> wrap]

\* a deposit as the page lays it out: the amount, then a wrapper with the
\* "Deposit" paragraph and its status, then, once a return is on its way,
\* a wrapper with the "Return" paragraph and its status
LaidOut(returnStatuses) ==
    <<El("p", <<"$", "3", "0", "0">>, FALSE),
      El("p", TextDeposit, TRUE), El("small", TextInvoiced, FALSE)>>
    \o Concat([k \in 1..Len(returnStatuses) |->
                 <<El("p", TextReturn, TRUE),
                   El("small", returnStatuses[k], FALSE)>>])

\* containers made of paragraphs that bear on the amount
TextEuro == <<"€">>
TextDollar == <<"$">>
Text1250 == <<"1", ",", "2", "5", "0", ".", "0", "0">>
Text300 == <<"$", "3", "0", "0">>
Text450 == <<"4", "5", "0">>

TextPound75 == <<"£", " ", "7", ".", "5">>

AmountTexts ==
    {TextEuro, TextDollar, Text1250, Text300, Text450, TextPound75, TextDeposit}

AmountContainers ==
    UNION {[1..n -> {El("p", text, FALSE) : text \in AmountTexts}] :
             n \in 1..MaxParagraphs}

\* a standalone currency symbol followed by a paragraph of prose
TextPaid3May == <<"P", "a", "i", "d", " ", "3", " ", "M", "a", "y">>
TextDepositDot == <<"D", "e", "p", "o", "s", "i", "t", ".">>

ProseContainers ==
    {<<El("p", <<symbol>>, FALSE), El("p", text, FALSE)>> :
        symbol \in {"€", "$", "£"}, text \in {TextPaid3May, TextDepositDot}}

Containers ==
    UNION {[1..n -> Elements] : n \in 0..MaxElements}
        \cup {LaidOut(<<>>), LaidOut(<<TextInvoiced>>),
              LaidOut(<<TextPendingInvoice>>)}
        \cup AmountContainers
        \cup ProseContainers

NoRecordInfo ==
    [index |-> 0, type |-> <<>>, amount |-> <<>>, currency |-> <<>>,
     depositStatus |-> <<>>, hasBeenReturned |-> FALSE, returnStatus |-> <<>>]

InitExtract ==
    /\ extPc = "input"
    /\ extContainer \in Containers
    /\ extDemo = NoRecordInfo
    /\ extDetector = NoRecordInfo

ExtractDemo ==
    /\ extPc = "input"
    /\ extDemo' = extractDepositInfo(extContainer, 1)
    /\ extPc' = "demo"
    /\ UNCHANGED <<extContainer, extDetector>>
    /\ UNCHANGED <<pipeVars, expVars, findVars>>

ExtractDetector ==
    /\ extPc = "demo"
    /\ extDetector' = extractDepositInfoDetector(extContainer, 1)
    /\ extPc' = "both"
    /\ UNCHANGED <<extContainer, extDemo>>
    /\ UNCHANGED <<pipeVars, expVars, findVars>>

-----------------------------------------------------------------------------
(* findDepositContainers and findAllDeposits, in both files.  A page is    *)
(* [head, nodes]: head is the text of the document's head, nodes are the   *)
(* elements of the body in document order, each with its parent (an        *)
(* earlier node, or Body), its tag, its id, the text directly in it, and   *)
(* the selector of the fixed list that matches it (0 when none does).      *)

Body == 0
Html == -1
Document == -2
NoNode == -3

\* CONFIG.SELECTORS.DEPOSITS.CONTAINERS: how many selectors the list holds
\* matters to neither file, the list is joined into one query
SelectorCount == 2

Node(parent, tag, text, sel, id) ==
    [parent |-> parent, tag |-> tag, text |-> text, sel |-> sel, id |-> id]

\* element.parentElement
ParentElement(page, k) ==
    IF k >= 1 THEN page.nodes[k].parent
    ELSE IF k = Body THEN Html
    ELSE NoNode

\* whether node a is node k or an ancestor of it
RECURSIVE IsWithin(_, _, _)
IsWithin(page, a, k) ==
    IF k = a THEN TRUE
    ELSE IF k = NoNode THEN FALSE
    ELSE IsWithin(page, a, ParentElement(page, k))

\* element.textContent
NodeText(page, a) ==
    LET inside == SelectSeq([k \in 1..Len(page.nodes) |-> k],
                            LAMBDA k : IsWithin(page, a, k))
        body == Concat([n \in 1..Len(inside) |-> page.nodes[inside[n]].text])
    IN  IF a = Html THEN page.head \o body ELSE body

\* DOMUtils.elementContainsText(element, text)
NodeContainsText(page, a, text) == Includes(Trim(NodeText(page, a)), text)

\* /\d+\.\d+|\d+,\d+/.test(text)
HasNumbers(text) ==
    \E k \in 1..(Len(text) - 2) :
        /\ text[k] \in Digits
        /\ text[k + 1] \in {".", ","}
        /\ text[k + 2] \in Digits

\* /\\d+\\.\\d+|\\d+,\\d+/.test(text): in a regular expression literal \\
\* is a backslash, so the pattern asks for a backslash, a run of the letter
\* d, then a backslash, any character, a backslash and a d, or a comma, a
\* backslash and a d
HasNumbersDetector(text) ==
    \E k \in 1..Len(text), a \in 1..Len(text) :
        /\ k + a + 3 <= Len(text)
        /\ text[k] = "\\"
        /\ \A j \in (k + 1)..(k + a) : text[j] = "d"
        /\ \/ /\ k + a + 4 <= Len(text)
              /\ text[k + a + 1] = "\\"
              /\ text[k + a + 2] # "\n"
              /\ text[k + a + 3] = "\\"
              /\ text[k + a + 4] = "d"
           \/ /\ text[k + a + 1] = ","
              /\ text[k + a + 2] = "\\"
              /\ text[k + a + 3] = "d"

\* the predicate findDepositContainersGeneric hands to findAncestor
IsContainer(page, a, fixed) ==
    /\ NodeContainsText(page, a, TextDeposit)
    /\ \/ \E s \in 1..Len(CURRENCY_SYMBOLS) :
             NodeContainsText(page, a, <<CURRENCY_SYMBOLS[s]>>)
       \/ IF fixed THEN HasNumbers(NodeText(page, a))
          ELSE HasNumbersDetector(NodeText(page, a))

\* DOMUtils.findAncestor(element, predicate, maxDepth), for that predicate
RECURSIVE findAncestor(_, _, _, _, _)
findAncestor(page, current, fixed, depth, maxDepth) ==
    IF current = NoNode \/ depth >= maxDepth THEN NoNode
    ELSE IF IsContainer(page, current, fixed) THEN current
    ELSE findAncestor(page, ParentElement(page, current), fixed, depth + 1, maxDepth)

\* DOMUtils.findElementsByText('p', 'Deposit')
DepositParagraphs(page) ==
    SelectSeq([k \in 1..Len(page.nodes) |-> k],
              LAMBDA k : /\ page.nodes[k].tag = "p"
                         /\ Trim(NodeText(page, k)) = TextDeposit)

\* the loop of findDepositContainersGeneric from the n-th paragraph on
RECURSIVE GenericLoop(_, _, _, _)
GenericLoop(page, fixed, n, containers) ==
    LET ps == DepositParagraphs(page)
        container == findAncestor(page, ps[n], fixed, 0, 8)
        seen == \E j \in 1..Len(containers) : containers[j] = container
    IN  IF n > Len(ps) THEN containers
        ELSE GenericLoop(page, fixed, n + 1,
                         IF container # NoNode /\ ~seen
                         THEN Append(containers, container) ELSE containers)

findDepositContainersGeneric(page, fixed) == GenericLoop(page, fixed, 1, <<>>)

\* DOMUtils.querySelectorAll(CONTAINERS.join(', ')): one query for the whole
\* list; a list with an invalid selector in it is an invalid selector, the
\* query throws and [] is returned
QueryContainers(page, invalid) ==
    IF invalid # 0 THEN <<>>
    ELSE SelectSeq([k \in 1..Len(page.nodes) |-> k],
                   LAMBDA k : page.nodes[k].sel # 0)

\* the mutant of DirectContainers: the matches are not filtered
DirectContainersUnfiltered(page, invalid) == QueryContainers(page, invalid)

\* the direct-selector step of findDepositContainers
DirectContainers(page, invalid) ==
    SelectSeq(QueryContainers(page, invalid),
              LAMBDA k : NodeContainsText(page, k, TextDeposit))

\* findDepositContainers: fixed is TRUE for src/script-demo.js and FALSE for
\* src/return-detector.js, whose test for numbers is another
findDepositContainers(page, invalid, fixed) ==
    IF DirectContainers(page, invalid) = <<>>
    THEN findDepositContainersGeneric(page, fixed)
    ELSE DirectContainers(page, invalid)


\* the mutant of IdOf: the document node has an empty id as elements have
IdOfDocumentEmpty(page, k) ==
    IF k >= 1 THEN JStr(page.nodes[k].id) ELSE JStr(<<>>)

\* element.id: the document node has no id property
IdOf(page, k) ==
    IF k >= 1 THEN JStr(page.nodes[k].id)
    ELSE IF k = Document THEN JUndef
    ELSE JStr(<<>>)

\* element.parentNode
ParentNode(page, k) ==
    IF k = Html THEN Document
    ELSE IF k = Document THEN NoNode
    ELSE ParentElement(page, k)

\* element.tagName.toLowerCase()
TagOf(page, k) ==
    IF k = Body THEN <<"b", "o", "d", "y">>
    ELSE IF k = Html THEN <<"h", "t", "m", "l">>
    ELSE IF page.nodes[k].tag = "div" THEN <<"d", "i", "v">>
    ELSE <<"p">>

\* ix + 1 of getXPath: one more than the number of the element's siblings
\* of its tag that come before it
PlaceAmongSiblings(page, k) ==
    IF k < 1 THEN 1
    ELSE 1 + Cardinality({j \in 1..(k - 1) :
                            /\ page.nodes[j].parent = page.nodes[k].parent
                            /\ page.nodes[j].tag = page.nodes[k].tag})

\* getXPath(element) of src/return-detector.js: the path, or raised when a
\* step of it throws (element.parentNode.childNodes of a node that has no
\* parent node)
RECURSIVE getXPath(_, _)
getXPath(page, k) ==
    LET id == IdOf(page, k)
        above == getXPath(page, ParentNode(page, k))
    IN  IF id # JStr(<<>>)
        THEN [raised |-> FALSE,
              path |-> <<"/", "/", "*", "[", "@", "i", "d", "=", "\"">>
                       \o (IF id = JUndef
                           THEN <<"u", "n", "d", "e", "f", "i", "n", "e", "d">>
                           ELSE id.s)
                       \o <<"\"", "]">>]
        ELSE IF k = Body
        THEN [raised |-> FALSE, path |-> <<"/", "h", "t", "m", "l", "/", "b", "o", "d", "y">>]
        ELSE IF ParentNode(page, k) = NoNode
        THEN [raised |-> TRUE, path |-> <<>>]
        ELSE IF above.raised THEN above
        ELSE [raised |-> FALSE,
              path |-> above.path \o <<"/">> \o TagOf(page, k)
                       \o <<"[", ToString(PlaceAmongSiblings(page, k)), "]">>]

\* what extractDepositInfo reads of a container of the page: the pages here
\* have their text in paragraphs and no small element, so it reads the
\* paragraphs below the container, in document order
ContainerOf(page, c) ==
    LET ps == SelectSeq([k \in 1..Len(page.nodes) |-> k],
                        LAMBDA k : /\ k # c
                                   /\ page.nodes[k].tag = "p"
                                   /\ IsWithin(page, c, k))
    IN  [n \in 1..Len(ps) |-> El("p", page.nodes[ps[n]].text, FALSE)]

\* findAllDeposits of src/script-demo.js: raised is whether it threw
findAllDeposits(page, invalid) ==
    LET containers == findDepositContainers(page, invalid, TRUE)
    IN  [raised |-> FALSE,
         containers |-> containers,
         records |->
            [n \in 1..Len(containers) |->
                [info |-> extractDepositInfo(ContainerOf(page, containers[n]), n),
                 element |-> containers[n]]]]

\* findAllDeposits of src/return-detector.js
findAllDepositsDetector(page, invalid) ==
    LET containers == findDepositContainers(page, invalid, FALSE)
        threw == \E n \in 1..Len(containers) : getXPath(page, containers[n]).raised
    IN  [raised |-> threw,
         containers |-> containers,
         records |->
            IF threw THEN <<>>
            ELSE [n \in 1..Len(containers) |->
                    [info |-> extractDepositInfoDetector(
                                  ContainerOf(page, containers[n]), n),
                     xpath |-> getXPath(page, containers[n]).path]]]

\* ---- the pages ----

\* the number of elements of a page of the enumerated family
MaxNodes == 3
\* the deepest chain of nested elements of a page of the chain family
MaxDepth == 8

Div(parent, sel) == Node(parent, "div", <<>>, sel, <<>>)
P(parent, text) == Node(parent, "p", text, 0, <<>>)

\* the second selector of the list matches what the first one matches
SelectorMatches(node, s) ==
    IF s = 1 THEN node.sel = 1 ELSE node.sel \in {1, 2}

\* every page of up to MaxNodes elements, each a div (matched by the first
\* selector, by the second alone, or by none), a "Deposit" paragraph or an
\* amount paragraph, below the body or below a div that comes before it
NodeKinds ==
    [parent : 0..(MaxNodes - 1), tag : {"div"}, text : {<<>>},
     sel : 0..SelectorCount, id : {<<>>}]
    \cup [parent : 0..(MaxNodes - 1), tag : {"p"},
          text : {TextDeposit, Text1250}, sel : {0}, id : {<<>>}]

\* whether node a is node k or above it
RECURSIVE OnPath(_, _, _)
OnPath(nodes, a, k) ==
    IF k = a THEN TRUE
    ELSE IF k = 0 THEN FALSE
    ELSE OnPath(nodes, a, nodes[k].parent)

\* the nodes are in document order: a node's parent is the body, the node
\* before it or an ancestor of that node; and only a div has children
WellFormed(nodes) ==
    \A k \in 1..Len(nodes) :
        /\ nodes[k].parent < k
        /\ nodes[k].parent # 0 =>
              /\ nodes[nodes[k].parent].tag = "div"
              /\ OnPath(nodes, nodes[k].parent, k - 1)

EnumeratedPages ==
    UNION {{[head |-> <<>>, nodes |-> nodes] :
                nodes \in {ns \in [1..n -> NodeKinds] : WellFormed(ns)}} :
           n \in 0..MaxNodes}

\* a chain of depth nested divs below the body with a "Deposit" paragraph
\* in the innermost: the div at level 1 is the paragraph's parent, the div
\* at level depth is the outermost.  The div at level amountAt also holds
\* the paragraph "1,250.00" and the div at level symbolAt the paragraph "€"
\* (0: there is no such paragraph)
Chain(depth, amountAt, symbolAt) ==
    [head |-> <<>>,
     nodes |-> [k \in 1..depth |-> Div(k - 1, 0)]
               \o <<P(depth, TextDeposit)>>
               \o (IF amountAt = 0 \/ amountAt > symbolAt THEN <<>>
                   ELSE <<P(depth + 1 - amountAt, Text1250)>>)
               \o (IF symbolAt = 0 THEN <<>>
                   ELSE <<P(depth + 1 - symbolAt, TextEuro)>>)
               \o (IF amountAt = 0 \/ amountAt <= symbolAt THEN <<>>
                   ELSE <<P(depth + 1 - amountAt, Text1250)>>)]

\* level depth + 1 is the body
ChainPages ==
    UNION {{Chain(depth, amountAt, symbolAt) :
                amountAt \in 0..(depth + 1), symbolAt \in 0..(depth + 1)} :
           depth \in 1..MaxDepth}

\* two deposits, one nested in the other: the outer container comes first
\* in the document, its own "Deposit" paragraph last
NestedPage ==
    [head |-> <<>>,
     nodes |-> <<Div(0, 0), Div(1, 0), P(2, TextDeposit), P(2, Text1250),
                 P(1, TextDeposit)>>]

\* the same with a currency symbol for the amount
NestedSymbolPage ==
    [head |-> <<>>,
     nodes |-> <<Div(0, 0), Div(1, 0), P(2, TextDeposit), P(2, TextEuro),
                 P(1, TextDeposit)>>]

\* the text that makes a container of the "Deposit" paragraph's ancestors
\* is in the head of the document only: the root element is the container
RootPage ==
    [head |-> Text1250 \o <<" ">> \o TextEuro,
     nodes |-> <<P(0, TextDeposit)>>]

\* the body is the container
BodyPage ==
    [head |-> <<>>, nodes |-> <<P(0, TextDeposit), P(0, TextEuro), P(0, Text1250)>>]

\* a container with an id, found by the selectors and by the fallback
IdPages ==
    {[head |-> <<>>,
      nodes |-> <<Div(0, 0),
                  Node(1, "div", <<>>, sel, <<"m", "a", "i", "n">>),
                  P(2, TextDeposit), P(2, TextDollar), P(2, Text300)>>] :
        sel \in 0..SelectorCount}

Pages ==
    EnumeratedPages \cup ChainPages \cup IdPages
    \cup {NestedPage, NestedSymbolPage, RootPage, BodyPage}

NoFind == [raised |-> FALSE, containers |-> <<>>, records |-> <<>>]

\* findInvalid is the selector of the list the browser rejects, 0 when it
\* accepts them all
InitFind ==
    /\ findPc = "input"
    /\ findPage \in Pages
    /\ findInvalid \in 0..SelectorCount
    /\ findDemo = NoFind
    /\ findDetector = NoFind

FindDemo ==
    /\ findPc = "input"
    /\ findDemo' = findAllDeposits(findPage, findInvalid)
    /\ findPc' = "demo"
    /\ UNCHANGED <<findPage, findInvalid, findDetector>>
    /\ UNCHANGED <<pipeVars, expVars, extVars>>

FindDetector ==
    /\ findPc = "demo"
    /\ findDetector' = findAllDepositsDetector(findPage, findInvalid)
    /\ findPc' = "both"
    /\ UNCHANGED <<findPage, findInvalid, findDemo>>
    /\ UNCHANGED <<pipeVars, expVars, extVars>>

-----------------------------------------------------------------------------
(* Specifications *)

PipelineIdle ==
    /\ mode = "idle"
    /\ deposits = <<>>
    /\ i = 0
    /\ pc = "idle"
    /\ details = NoDetails
    /\ depositDetails = <<>>
    /\ exportData = <<>>
    /\ downloads = <<>>
    /\ result = [kind |-> "none", count |-> 0, data |-> <<>>, error |-> <<>>]
    /\ modal = 0
    /\ pendingOpen = {}
    /\ timers = {}
    /\ waitElapsed = 0
    /\ cur = NoRecord
    /\ prev = NoRecord
    /\ faultLog = {}

ExportIdle ==
    /\ expPc = "idle"
    /\ expDetails = <<>>
    /\ expRows = <<>>
    /\ expCsv = <<>>
    /\ expRead = <<>>

ExtractIdle ==
    /\ extPc = "idle"
    /\ extContainer = <<>>
    /\ extDemo = NoRecordInfo
    /\ extDetector = NoRecordInfo

FindIdle ==
    /\ findPc = "idle"
    /\ findPage = [head |-> <<>>, nodes |-> <<>>]
    /\ findInvalid = 0
    /\ findDemo = NoFind
    /\ findDetector = NoFind

\* the batch export and the exposed getDepositDetails
Init == InitPipeline /\ ExportIdle /\ ExtractIdle /\ FindIdle
Next ==
    \/ Start
    \/ Click
    \/ ModalAppears
    \/ Mutation
    \/ WaitDeadline
    \/ ReadDetails
    \/ Push
    \/ ReturnToCaller
    \/ CloseModal
    \/ DelayElapsed
    \/ Export
    \/ DownloadCsv
    \/ DownloadJson
    \/ Finish

Spec == Init /\ [][Next]_vars

\* a step of the script, or a timer that is due firing
ScriptStep ==
    \/ Start
    \/ Click
    \/ WaitDeadline
    \/ ReadDetails
    \/ Push
    \/ ReturnToCaller
    \/ CloseModal
    \/ DelayElapsed
    \/ Export
    \/ DownloadCsv
    \/ DownloadJson
    \/ Finish

\* the same, where the script goes on and the timers that are due fire;
\* the page owes nothing
Fairness == WF_vars(ScriptStep)

SpecLive == Init /\ [][Next]_vars /\ Fairness

\* the export formatter on its own
InitFormatter == InitExport /\ PipelineIdle /\ ExtractIdle /\ FindIdle
NextExport == ExpFormat \/ ExpSerialize \/ ExpReadBack

SpecExport == InitFormatter /\ [][NextExport]_vars

\* extractDepositInfo of both files on one container
InitExtractor == InitExtract /\ PipelineIdle /\ ExportIdle /\ FindIdle
NextExtract == ExtractDemo \/ ExtractDetector
SpecExtract == InitExtractor /\ [][NextExtract]_vars

\* findAllDeposits of both files on one page
InitFinder == InitFind /\ PipelineIdle /\ ExportIdle /\ ExtractIdle
NextFind == FindDemo \/ FindDetector
SpecFind == InitFinder /\ [][NextFind]_vars

-----------------------------------------------------------------------------
(* Properties of the batch export and of the detail-view driver *)

ErrorMessageOf(row) == GetProp(row, "errorMessage").s

RowsWithIndex(rows, k) ==
    {r \in 1..Len(rows) : GetProp(rows[r], "index") = JNum(k)}

\* C2: when the read of record k's form raises, getDepositDetails resolves
\* (it does not reject) with the record's index, its list fields and the
\* error's message; and in a run where that is the only step that raises,
\* the loop goes on to the end and the result has one row per record, row k
\* with a non-empty errorMessage and every other row with an empty one.
C2_ErrorIsolated ==
    /\ (pc = "returned" /\ cur.read = "raised") =>
          /\ details.settled = "resolved"
          /\ details.value.index = deposits[i].index
          /\ details.value.listInfo = ListInfoOf(deposits[i])
          /\ details.value.error = JStr(ReadMsg)
    /\ \A k \in 1..Len(deposits) :
          (mode = "batch" /\ pc = "done" /\ faultLog = {<<k, "read">>}) =>
             /\ result.kind = "success"
             /\ Len(result.data) = Len(deposits)
             /\ \A r \in 1..Len(result.data) :
                   (ErrorMessageOf(result.data[r]) # <<>>) <=> (r = k)

C2_Witness ==
    /\ result.kind = "success"
    /\ Len(deposits) >= 2
    /\ faultLog = {<<1, "read">>}
    /\ ErrorMessageOf(result.data[1]) = ReadMsg
    /\ ErrorMessageOf(result.data[2]) = <<>>

\* C3: whichever step raises, a batch run that succeeds delivers exactly one
\* row per record, each index 1..N once, and a count equal to the number of
\* rows.
C3_OneRowPerRecord ==
    result.kind = "success" =>
       /\ Len(result.data) = Len(deposits)
       /\ \A k \in 1..Len(deposits) :
             Cardinality(RowsWithIndex(result.data, k)) = 1
       /\ result.count = Len(result.data)

\* C4: records are enriched one at a time: when the next record has been
\* clicked, the wait and the read of the record before it are over, its
\* dismissal has been attempted and the delay after the dismissal has
\* elapsed.
C4_OneAtATime ==
    (mode = "batch" /\ i >= 2 /\ cur.click # "none") =>
       /\ prev.wait # "pending"
       /\ prev.read # "pending"
       /\ prev.close # "none"
       /\ prev.delay = "elapsed"

\* C5: every enrichment is followed by an attempt to dismiss the modal,
\* in the batch loop and for a caller of the exposed getDepositDetails.
C5_AlwaysDismissed ==
    /\ (mode = "batch" /\ prev.click # "none") => prev.close # "none"
    /\ (mode = "direct" /\ pc = "done") => cur.close # "none"

\* C6: the wait for the modal settles within MODAL_WAIT; when the deadline
\* passes the enrichment goes on to the settle delay and the read of the
\* form, the details then carry modalInfo and no error, and no row ever
\* carries the message of the timeout.
C6_TimeoutDegrades ==
    /\ pc = "wait" => waitElapsed < MODAL_WAIT
    /\ cur.wait \notin {"none", "pending"} => cur.waitTook <= MODAL_WAIT
    /\ cur.wait \in {"fallback", "timeout"} =>
          /\ cur.waitTook = MODAL_WAIT
          /\ cur.read # "none"
    /\ (cur.wait = "timeout" /\ cur.read = "ok" /\ pc = "returned") =>
          /\ details.settled = "resolved"
          /\ details.value.modalInfo.present
          /\ details.value.error = JUndef
    /\ (cur.wait = "timeout" /\ cur.read = "ok" /\ pc = "close") =>
          /\ depositDetails[Len(depositDetails)].modalInfo.present
          /\ depositDetails[Len(depositDetails)].error = JUndef
    /\ details.value.error # JStr(TimeoutMsg)
    /\ \A r \in 1..Len(depositDetails) :
          depositDetails[r].error # JStr(TimeoutMsg)
    /\ \A r \in 1..Len(result.data) : ErrorMessageOf(result.data[r]) # TimeoutMsg

C6_Witness ==
    /\ pc = "close"
    /\ cur.wait = "timeout"
    /\ cur.waitTook = MODAL_WAIT
    /\ cur.read = "ok"
    /\ depositDetails[Len(depositDetails)].modalInfo.present

\* C7: a run that ends in the top-level catch has downloaded no file, and
\* no run ends with only one of the two files downloaded.
C7_AllOrNothing ==
    /\ result.kind = "failure" => downloads = <<>>
    /\ pc = "done" => Len(downloads) # 1

-----------------------------------------------------------------------------
(* Properties of extractDepositInfo *)

ReturnedIffInvoiced(info) ==
    info.hasBeenReturned <=> (info.returnStatus = TextInvoiced)

\* C1: in both files the record extractDepositInfo returns has
\* hasBeenReturned = true exactly when its returnStatus is "Invoiced".
C1_ReturnedIffInvoiced ==
    /\ extPc \in {"demo", "both"} => ReturnedIffInvoiced(extDemo)
    /\ extPc = "both" => ReturnedIffInvoiced(extDetector)

\* the half of C1 that src/return-detector.js keeps
C1_DetectorOnly == extPc = "both" => ReturnedIffInvoiced(extDetector)

-----------------------------------------------------------------------------
(* Properties of the run as a whole and of waitForElement *)

\* C19: a batch run, once started, settles in the end with a success or a
\* failure result, whatever the page does, as long as the script's steps are
\* taken and the timers that are due fire.
C19_Settles ==
    (mode = "batch") ~>
        (pc = "done" /\ result.kind \in {"success", "failure", "nodeposits"})

\* a finished run in which no modal ever appeared and no close button was
\* there for the last record
C19_Witness ==
    /\ mode = "batch"
    /\ pc = "done"
    /\ result.kind = "success"
    /\ Len(deposits) = MaxRecords
    /\ modal = 0
    /\ pendingOpen = {}
    /\ prev.wait = "timeout"
    /\ prev.close = "escape"

\* C20: once the wait of the record in hand has settled (at once, by the
\* observer, or by the deadline), no deadline timer it set up is still
\* pending to fire later.
C20_NoWatcherLeft ==
    cur.wait \in {"immediate", "observed", "fallback", "timeout"} =>
        ~ \E t \in timers : t.kind = "wait" /\ t.rec = i

-----------------------------------------------------------------------------
(* Properties of the amount and the currency extractDepositInfo returns *)

ParagraphTexts(container) ==
    LET ps == Paragraphs(container)
    IN  [n \in 1..Len(ps) |-> TextOf(container, ps[n])]

IsSymbol(text) == \E s \in 1..Len(CURRENCY_SYMBOLS) : text = <<CURRENCY_SYMBOLS[s]>>

\* the paragraph "€" is the only standalone currency paragraph and the
\* paragraph right after it is "1,250.00"
EuroThen1250(container) ==
    LET texts == ParagraphTexts(container)
    IN  \E n \in 1..(Len(texts) - 1) :
            /\ texts[n] = TextEuro
            /\ texts[n + 1] = Text1250
            /\ \A k \in 1..Len(texts) : IsSymbol(texts[k]) => k = n

\* C15: for a container with a paragraph "€" right before a paragraph
\* "1,250.00", and no other standalone currency paragraph, both files return
\* currency "€" and the amount as written, "1,250.00", whatever the other
\* paragraphs are.
C15_EuroAmount ==
    EuroThen1250(extContainer) =>
        /\ extPc \in {"demo", "both"} =>
              extDemo.currency = TextEuro /\ extDemo.amount = Text1250
        /\ extPc = "both" =>
              extDetector.currency = TextEuro /\ extDetector.amount = Text1250

\* the pair comes after a paragraph "$300" and both files have run
C15_Witness ==
    /\ extPc = "both"
    /\ EuroThen1250(extContainer)
    /\ ParagraphTexts(extContainer)[1] = Text300
    /\ extDemo.amount = Text1250

\* no standalone currency paragraph is followed by a paragraph with a digit,
\* a comma or a period
NoneAlone(container) ==
    LET texts == ParagraphTexts(container)
    IN  \A n \in 1..(Len(texts) - 1) :
            IsSymbol(texts[n]) =>
                \A k \in 1..Len(texts[n + 1]) : texts[n + 1][k] \notin AmountChars

\* whether the text is an optional symbol, optional blanks and a run of
\* digits, commas and periods
IsCombined(text) ==
    \E a \in 0..1, b \in 0..Len(text) :
        /\ a + b < Len(text)
        /\ a = 1 => IsSymbol(<<text[1]>>)
        /\ \A k \in (a + 1)..(a + b) : text[k] \in Whitespace
        /\ \A k \in (a + b + 1)..Len(text) : text[k] \in AmountChars

\* what the record should carry when the first combined paragraph is text
SplitAsClaimed(info, text) ==
    /\ text = Text300 => info.currency = TextDollar /\ info.amount = <<"3", "0", "0">>
    /\ text = Text450 => info.currency = <<>> /\ info.amount = Text450
    /\ text = TextPound75 =>
          info.currency = <<"£">> /\ info.amount = <<"7", ".", "5">>
    /\ \E a \in 0..1, b \in 0..Len(text) :
          /\ info.currency = SubSeq(text, 1, a)
          /\ a = 1 => IsSymbol(info.currency)
          /\ \A k \in (a + 1)..(a + b) : text[k] \in Whitespace
          /\ info.amount = SubSeq(text, a + b + 1, Len(text))
          /\ info.amount # <<>>
          /\ \A k \in 1..Len(info.amount) : info.amount[k] \in AmountChars

\* C16: when no standalone currency paragraph supplies the amount, the first
\* paragraph that is an optional symbol, optional blanks and a run of
\* [0-9,.] is split into currency and amount: "$300" gives "$" and "300",
\* "450" gives "" and "450".
C16_CombinedSplit ==
    LET texts == ParagraphTexts(extContainer)
        found == {n \in 1..Len(texts) : IsCombined(texts[n])}
    IN  (NoneAlone(extContainer) /\ found # {}) =>
            /\ extPc \in {"demo", "both"} =>
                  SplitAsClaimed(extDemo, texts[Least(found)])
            /\ extPc = "both" => SplitAsClaimed(extDetector, texts[Least(found)])

\* "450" comes first, "$300" after it, behind a standalone "$" that
\* supplies nothing
C16_Witness ==
    /\ extPc = "both"
    /\ ParagraphTexts(extContainer) = <<TextDollar, TextDeposit, Text450, Text300>>
    /\ extDemo.currency = <<>>
    /\ extDemo.amount = Text450

\* C17: no record has a currency and no amount.
C17_NoCurrencyAlone ==
    /\ extPc \in {"demo", "both"} =>
          (extDemo.amount = <<>> => extDemo.currency = <<>>)
    /\ extPc = "both" =>
          (extDetector.amount = <<>> => extDetector.currency = <<>>)

-----------------------------------------------------------------------------
(* Properties of findDepositContainers and findAllDeposits *)

\* what each file's findAllDeposits returned, once it has
FindResults ==
    (IF findPc \in {"demo", "both"} THEN {findDemo} ELSE {})
    \cup (IF findPc = "both" THEN {findDetector} ELSE {})

HasDepositText(page, a) == Includes(NodeText(page, a), TextDeposit)

\* the elements the selectors in use match whose text contains "Deposit",
\* in document order
Filtered(page, selectors) ==
    SelectSeq([k \in 1..Len(page.nodes) |-> k],
              LAMBDA k : /\ \E s \in selectors : SelectorMatches(page.nodes[k], s)
                         /\ HasDepositText(page, k))

\* the level-th ancestor of an element, the element itself at level 0
RECURSIVE AncestorAt(_, _, _)
AncestorAt(page, k, level) ==
    IF level = 0 \/ k = NoNode THEN k
    ELSE AncestorAt(page, ParentElement(page, k), level - 1)

\* text containing "Deposit" and digits.digits or digits,digits
HasDepositAndNumber(page, a) ==
    /\ a # NoNode
    /\ HasDepositText(page, a)
    /\ HasNumbers(NodeText(page, a))

\* no selector matches, there is one "Deposit" paragraph and its third
\* ancestor is the nearest node with "Deposit" and a numeric pattern
ThirdAncestorCase(page) ==
    /\ \A k \in 1..Len(page.nodes) : page.nodes[k].sel = 0
    /\ Len(DepositParagraphs(page)) = 1
    /\ LET e == DepositParagraphs(page)[1]
       IN  /\ \A level \in 0..2 : ~ HasDepositAndNumber(page, AncestorAt(page, e, level))
           /\ HasDepositAndNumber(page, AncestorAt(page, e, 3))

\* C11: in both files, when the selector list matches nothing and the page
\* has exactly one paragraph "Deposit" whose third ancestor is the nearest
\* node whose text contains "Deposit" and a numeric pattern (with or without
\* a currency symbol), findDepositContainers returns exactly that ancestor.
C11_ThirdAncestor ==
    ThirdAncestorCase(findPage) =>
        \A r \in FindResults :
            r.containers = <<AncestorAt(findPage, DepositParagraphs(findPage)[1], 3)>>

\* C12: with the selector list as it is, findDepositContainers returns
\* exactly the selector-matched elements whose text contains "Deposit"
\* whenever there is one, and goes to the fallback only when there is none;
\* on either path every element returned has text containing "Deposit".
C12_DirectFirst ==
    \A r \in FindResults :
        /\ (findInvalid = 0 /\ Filtered(findPage, 1..SelectorCount) # <<>>) =>
              r.containers = Filtered(findPage, 1..SelectorCount)
        /\ \A n \in 1..Len(r.containers) : HasDepositText(findPage, r.containers[n])

C12_Witness ==
    /\ findPc = "both"
    /\ findInvalid = 0
    /\ Len(Filtered(findPage, 1..SelectorCount)) = 1
    /\ \E k \in 1..Len(findPage.nodes) :
          findPage.nodes[k].sel # 0 /\ ~ HasDepositText(findPage, k)
    /\ findDemo.containers = Filtered(findPage, 1..SelectorCount)
    /\ findDetector.containers = findDemo.containers

\* C13: when the browser rejects one selector of the list,
\* findDepositContainers does not raise and the elements the other
\* selectors match (with "Deposit" in their text) are what it returns.
C13_InvalidSkipped ==
    findInvalid # 0 =>
        \A r \in FindResults :
            /\ ~ r.raised
            /\ Filtered(findPage, (1..SelectorCount) \ {findInvalid}) # <<>> =>
                  r.containers = Filtered(findPage, (1..SelectorCount) \ {findInvalid})

IsText(x) == DOMAIN x = 1..Len(x) /\ \A k \in DOMAIN x : x[k] \in STRING

\* C14: for every container findDepositContainers returns, the document's
\* root and body and elements with and without an id among them,
\* extractDepositInfo returns a record and does not raise; its amount,
\* currency, depositStatus and returnStatus are strings and its
\* hasBeenReturned is a boolean.
C14_AlwaysARecord ==
    \A r \in FindResults :
        /\ ~ r.raised
        /\ Len(r.records) = Len(r.containers)
        /\ \A n \in 1..Len(r.records) :
              /\ IsText(r.records[n].info.amount)
              /\ IsText(r.records[n].info.currency)
              /\ IsText(r.records[n].info.depositStatus)
              /\ IsText(r.records[n].info.returnStatus)
              /\ r.records[n].info.hasBeenReturned \in BOOLEAN

C14_Witness ==
    /\ findPc = "both"
    /\ findDemo.containers = <<Html>>
    /\ findDetector.containers = <<Html>>
    /\ Len(findDetector.records) = 1
    /\ findDetector.records[1].info.currency = <<>>
    /\ findDetector.records[1].info.amount = <<>>

\* C18: the index values of the list findAllDeposits returns are 1..N in
\* list order, and the list is in the document order of the containers,
\* on the selector path and on the fallback path, nested containers
\* included.
C18_DocumentOrder ==
    \A r \in FindResults :
        /\ \A n \in 1..Len(r.records) : r.records[n].info.index = n
        /\ \A m, n \in 1..Len(r.containers) :
              m < n => r.containers[m] < r.containers[n]

-----------------------------------------------------------------------------
(* Further properties of extractDepositInfo and of formatForExport *)

OnlyAmountChars(text) == \A k \in 1..Len(text) : text[k] \in AmountChars

\* C23: an amount extractDepositInfo returns consists solely of digits,
\* commas and periods; after a standalone currency symbol, prose such as
\* "Paid 3 May" or "Deposit." is not returned as the amount.
C23_AmountCharsOnly ==
    /\ extPc \in {"demo", "both"} => OnlyAmountChars(extDemo.amount)
    /\ extPc = "both" => OnlyAmountChars(extDetector.amount)

Carried(value, default) == IF value = JUndef THEN default ELSE value

WithoutCommas(str) == SelectSeq(str, LAMBDA c : c # ",")

\* C25: formatForExport carries each record's values into its row
\* unchanged (currency, depositStatus, hasBeenReturned, returnStatus of the
\* list view; billPayer, amount as formAmount, depositDate, note,
\* alreadyPaid of the modal), except the list amount, which loses every
\* comma; a value the record lacks becomes "" or false.
C25_ValuesCarried ==
    (expDetails # <<>> /\ expPc # "input") =>
        /\ Len(expRows) = Len(expDetails)
        /\ \A r \in 1..Len(expDetails) :
              LET list == expDetails[r].listInfo
                  form == expDetails[r].modalInfo
                  Row(key) == GetProp(expRows[r], key)
              IN  /\ Row("amount") =
                        JStr(WithoutCommas(Carried(list.amount, JStr(<<>>)).s))
                  /\ Row("currency") = Carried(list.currency, JStr(<<>>))
                  /\ Row("depositStatus") = Carried(list.depositStatus, JStr(<<>>))
                  /\ Row("hasBeenReturned") = Carried(list.hasBeenReturned, JBool(FALSE))
                  /\ Row("returnStatus") = Carried(list.returnStatus, JStr(<<>>))
                  /\ Row("billPayer") = Carried(form.billPayer, JStr(<<>>))
                  /\ Row("formAmount") = Carried(form.amount, JStr(<<>>))
                  /\ Row("depositDate") = Carried(form.depositDate, JStr(<<>>))
                  /\ Row("note") = Carried(form.note, JStr(<<>>))
                  /\ Row("alreadyPaid") = Carried(form.alreadyPaid, JBool(FALSE))

\* a list amount with two commas next to a record without modal values
C25_Witness ==
    /\ expPc = "formatted"
    /\ Len(expDetails) = 2
    /\ expDetails[1].listInfo.amount = JStr(<<",", ",">>)
    /\ GetProp(expRows[1], "amount") = JStr(<<>>)
    /\ expDetails[1].modalInfo.present
    /\ GetProp(expRows[1], "note") = JStr(<<"a", ",", Quote>>)
    /\ ~ expDetails[2].modalInfo.present
    /\ GetProp(expRows[2], "amount") = JStr(<<"1", "250.00">>)
    /\ GetProp(expRows[2], "alreadyPaid") = JBool(FALSE)

-----------------------------------------------------------------------------
(* The depth of the generic fallback *)

\* the nearest of the first levels ancestors of element e that satisfies
\* the fallback's predicate, NoNode when none does
NearestWithin(page, e, fixed, levels) ==
    LET found == {l \in 1..levels :
                    /\ AncestorAt(page, e, l) # NoNode
                    /\ IsContainer(page, AncestorAt(page, e, l), fixed)}
    IN  IF found = {} THEN NoNode ELSE AncestorAt(page, e, Least(found))

\* the containers of the "Deposit" paragraphs from the n-th on, each once
RECURSIVE NearestOf(_, _, _, _)
NearestOf(page, fixed, n, chosen) ==
    LET ps == DepositParagraphs(page)
        c == NearestWithin(page, ps[n], fixed, 8)
    IN  IF n > Len(ps) THEN chosen
        ELSE NearestOf(page, fixed, n + 1,
                       IF c = NoNode \/ \E j \in 1..Len(chosen) : chosen[j] = c
                       THEN chosen ELSE Append(chosen, c))

\* C22: on the fallback path the container of each "Deposit" paragraph is
\* the nearest of its ancestors up to 8 levels above it that satisfies the
\* predicate (the 8th ancestor is still found, the 9th is not), a paragraph
\* without one adds nothing, and no element is in the list twice.
C22_EightLevels ==
    (\A k \in 1..Len(findPage.nodes) : findPage.nodes[k].sel = 0) =>
        /\ findPc \in {"demo", "both"} =>
              findDemo.containers = NearestOf(findPage, TRUE, 1, <<>>)
        /\ findPc = "both" =>
              findDetector.containers = NearestOf(findPage, FALSE, 1, <<>>)

-----------------------------------------------------------------------------
(* Whose modal a row's detail fields come from *)

\* the values read when no form control is on the page
EmptyForm ==
    [present |-> TRUE, billPayer |-> JStr(<<>>), amount |-> JStr(<<>>),
     depositDate |-> JStr(<<>>), note |-> JStr(<<>>), alreadyPaid |-> JBool(FALSE)]

\* C21: in a batch run the detail fields of row i (billPayer, formAmount,
\* depositDate, note, alreadyPaid) are those of the modal record i's own
\* click opened, or the defaults when there is none to read: never those of
\* another record's modal, whether the wait was satisfied by an element
\* already on the page or the modal of record i-1 was not closed.
C21_OwnModal ==
    mode = "batch" =>
        \A k \in 1..Len(depositDetails) :
            depositDetails[k].modalInfo.present =>
                depositDetails[k].modalInfo
                    \in {FormOf(depositDetails[k].index.n), EmptyForm}

=============================================================================
